---------------------------- MODULE Spec2Model ----------------------------
(***************************************************************************)
(* A model of Passenger's WebSocketCommandReverseServer (the reverse       *)
(* WebSocket command channel) and of the ConfigStore it is configured      *)
(* through.                                                                *)
(*                                                                         *)
(* The channel is single threaded: every handler runs to completion on the *)
(* event loop.  One action of the model is one handler invocation.  The    *)
(* WebSocket++ endpoint, the Boost.Asio deadline timer and the injected    *)
(* message handler are the environment; they are modelled by what the      *)
(* channel can observe of them.                                            *)
(***************************************************************************)
EXTENDS Integers, Sequences, FiniteSets, TLC

(***************************************************************************)
(* Bounds of the model.                                                    *)
(***************************************************************************)
\* Number of connection objects that can be alive at the same time.
MaxConns == 2
\* Number of expired, not yet dispatched completions of the timer.
MaxTimerReady == 1
\* Number of configure() calls made by the embedding program.
MaxConfigures == 1

(***************************************************************************)
(* JSON values (Json::Value).  t is the value type; s the payload of a     *)
(* string; n the payload of a number (integers as they are, reals in       *)
(* thousandths) or of a boolean (0/1).  An object is [t, m] with m the     *)
(* function from member names to values.                                   *)
(***************************************************************************)
Null == [t |-> "null", s |-> "", n |-> 0]

Str(x) == [t |-> "string", s |-> x, n |-> 0]

JInt(i) == [t |-> "int", s |-> "", n |-> i]

Real(milli) == [t |-> "real", s |-> "", n |-> milli]

Bool(b) == [t |-> "bool", s |-> "", n |-> IF b THEN 1 ELSE 0]

Obj(members) == [t |-> "object", m |-> members]

isNull(v) == v.t = "null"

isObject(v) == v.t = "object"

isMember(doc, k) == isObject(doc) /\ k \in DOMAIN doc.m

\* const operator[] of Json::Value: a missing member reads as null.
member(doc, k) == IF isMember(doc, k) THEN doc.m[k] ELSE Null

Digit(d) ==
    CASE d = 0 -> "0" [] d = 1 -> "1" [] d = 2 -> "2" [] d = 3 -> "3"
      [] d = 4 -> "4" [] d = 5 -> "5" [] d = 6 -> "6" [] d = 7 -> "7"
      [] d = 8 -> "8" [] OTHER -> "9"

RECURSIVE NatToString(_)
NatToString(i) ==
    IF i < 10 THEN Digit(i) ELSE NatToString(i \div 10) \o Digit(i % 10)

\* Json::Value::asString().
asString(v) ==
    CASE v.t = "null"   -> ""
      [] v.t = "string" -> v.s
      [] v.t = "bool"   -> IF v.n = 1 THEN "true" ELSE "false"
      [] v.t = "int"    -> IF v.n < 0 THEN "-" \o NatToString(-v.n)
                                      ELSE NatToString(v.n)
      [] v.t = "real"   -> NatToString(v.n \div 1000) \o "."
                              \o NatToString(v.n % 1000)
      [] OTHER          -> ""

\* Json::Value::asDouble() * 1000, the millisecond count the channel hands
\* to the timer and to the connection.
asMillis(v) ==
    CASE v.t = "real" -> v.n
      [] v.t = "int"  -> v.n * 1000
      [] v.t = "bool" -> v.n * 1000
      [] OTHER        -> 0

\* Json::Value::isConvertibleTo(), for a non-null value.
isConvertibleTo(v, target) ==
    LET numeric == v.t \in {"int", "real"}
    IN  CASE target = "stringValue"  -> numeric \/ v.t \in {"bool", "string"}
          [] target = "intValue"     -> numeric \/ v.t = "bool"
          [] target = "uintValue"    -> (numeric /\ v.n >= 0) \/ v.t = "bool"
          [] target = "realValue"    -> numeric \/ v.t = "bool"
          [] target = "booleanValue" -> numeric \/ v.t = "bool"
          [] OTHER                   -> FALSE

(***************************************************************************)
(* ConfigStore.  A store is the function from the registered keys to their *)
(* entries; an entry holds the schema of the key and its user value.  A    *)
(* default value getter is [has, v]: whether there is one, and the value   *)
(* it returns.                                                             *)
(***************************************************************************)
NoGetter == [has |-> FALSE, v |-> Null]

staticDefaultValue(v) == [has |-> TRUE, v |-> v]

OPTIONAL == 0

REQUIRED == 1

Entry(type, options, userValue, defaultValueGetter) ==
    [type |-> type, options |-> options, userValue |-> userValue,
     defaultValueGetter |-> defaultValueGetter]

EmptyStore == << >>

isRequired(entry) == entry.options % 2 = REQUIRED

\* A variant that knows no default values.
getEffectiveValue_ignoresDefault(userValue, defaultValueGetter) ==
    userValue

getEffectiveValue(userValue, defaultValueGetter) ==
    IF isNull(userValue)
    THEN IF defaultValueGetter.has THEN defaultValueGetter.v ELSE Null
    ELSE userValue

getTypeString(type) ==
    CASE type = "STRING_TYPE"           -> "string"
      [] type = "INTEGER_TYPE"          -> "integer"
      [] type = "UNSIGNED_INTEGER_TYPE" -> "unsigned integer"
      [] type = "FLOAT_TYPE"            -> "float"
      [] type = "BOOLEAN_TYPE"          -> "boolean"
      [] OTHER                          -> "unknown"

\* Entry::dumpProperties, together with the members dump() and
\* previewUpdate() write before calling it.
subdocOf(entry, userValue) ==
    [user_value |-> userValue,
     effective_value |-> getEffectiveValue(userValue, entry.defaultValueGetter),
     type |-> Str(getTypeString(entry.type))]
    @@ (IF entry.defaultValueGetter.has
        THEN [default_value |-> entry.defaultValueGetter.v] ELSE << >>)
    @@ (IF isRequired(entry) THEN [required |-> Bool(TRUE)] ELSE << >>)

Error(key, message) == [key |-> key, message |-> message]

getFullMessage(e) ==
    IF e.key = "" THEN e.message ELSE "'" \o e.key \o "' " \o e.message

\* A variant that registers whatever it is given.
registerKey_unchecked(store, key, type, options, defaultValueGetter) ==
    [ok |-> TRUE,
     store |-> [k \in DOMAIN store \cup {key} |->
                  IF k = key
                  THEN Entry(type, options, Null, defaultValueGetter)
                  ELSE store[k]]]

\* The result of registerKey: [ok, store]; ok is FALSE where the code throws.
registerKey(store, key, type, options, defaultValueGetter) ==
    IF options % 2 = REQUIRED /\ defaultValueGetter.has
    THEN [ok |-> FALSE, store |-> store]
    ELSE [ok |-> TRUE,
          store |-> [k \in DOMAIN store \cup {key} |->
                       IF k = key
                       THEN Entry(type, options, Null, defaultValueGetter)
                       ELSE store[k]]]

get(store, key) ==
    IF key \in DOMAIN store
    THEN getEffectiveValue(store[key].userValue, store[key].defaultValueGetter)
    ELSE Null

\* A variant that leaves the default values out.
dump_omitsDefault(store) ==
    Obj([k \in DOMAIN store |->
           [user_value |-> store[k].userValue,
            effective_value |-> getEffectiveValue(store[k].userValue,
                                                  store[k].defaultValueGetter),
            type |-> Str(getTypeString(store[k].type))]
           @@ (IF isRequired(store[k]) THEN [required |-> Bool(TRUE)]
               ELSE << >>)])

dump(store) ==
    Obj([k \in DOMAIN store |-> subdocOf(store[k], store[k].userValue)])

\* The keys of a table in the order in which its iterator visits them: each
\* key once, in an order that the hash table fixes.
RECURSIVE iterate(_)
iterate(keys) ==
    IF keys = {} THEN << >>
    ELSE LET k == CHOOSE x \in keys : TRUE
         IN  <<k>> \o iterate(keys \ {k})

\* The elements of a vector.
elements(vector) == {vector[i] : i \in DOMAIN vector}

\* A variant that takes every key without a value for a required one.
validateRequiredKeysExist_optionalToo(store, result) ==
    LET missing ==
            SelectSeq(iterate(DOMAIN store),
                      LAMBDA x : isNull(result.m[x].effective_value))
    IN  [i \in DOMAIN missing |-> Error(missing[i], "is required")]

\* The errors validateRequiredKeysExist appends, in their order.
validateRequiredKeysExist(store, result) ==
    LET missing ==
            SelectSeq(iterate(DOMAIN store),
                      LAMBDA x : /\ isRequired(store[x])
                                 /\ isNull(result.m[x].effective_value))
    IN  [i \in DOMAIN missing |-> Error(missing[i], "is required")]

\* A variant that takes whatever is an integer for an unsigned one.
validateExistantKey_signedIsUnsigned(value, entry) ==
    IF isNull(value) THEN ""
    ELSE CASE entry.type = "STRING_TYPE" ->
                IF isConvertibleTo(value, "stringValue") THEN ""
                ELSE "must be a string"
           [] entry.type \in {"INTEGER_TYPE", "UNSIGNED_INTEGER_TYPE"} ->
                IF isConvertibleTo(value, "intValue") THEN ""
                ELSE "must be an integer"
           [] entry.type = "FLOAT_TYPE" ->
                IF isConvertibleTo(value, "realValue") THEN ""
                ELSE "must be a number"
           [] entry.type = "BOOLEAN_TYPE" ->
                IF isConvertibleTo(value, "booleanValue") THEN ""
                ELSE "must be a boolean"
           [] OTHER -> "unknown type"

\* The message validateExistantKey reports for a value, "" when it accepts.
validateExistantKey(value, entry) ==
    IF isNull(value) THEN ""
    ELSE CASE entry.type = "STRING_TYPE" ->
                IF isConvertibleTo(value, "stringValue") THEN ""
                ELSE "must be a string"
           [] entry.type = "INTEGER_TYPE" ->
                IF isConvertibleTo(value, "intValue") THEN ""
                ELSE "must be an integer"
           [] entry.type = "UNSIGNED_INTEGER_TYPE" ->
                IF isConvertibleTo(value, "intValue")
                THEN IF isConvertibleTo(value, "uintValue") THEN ""
                     ELSE "must be greater than 0"
                ELSE "must be an integer"
           [] entry.type = "FLOAT_TYPE" ->
                IF isConvertibleTo(value, "realValue") THEN ""
                ELSE "must be a number"
           [] entry.type = "BOOLEAN_TYPE" ->
                IF isConvertibleTo(value, "booleanValue") THEN ""
                ELSE "must be a boolean"
           [] OTHER -> "unknown type"

\* The errors validateExistantKeys appends, in their order.
validateExistantKeys(store, result) ==
    LET invalid ==
            SelectSeq(iterate(DOMAIN result.m),
                      LAMBDA x :
                         /\ x \in DOMAIN store
                         /\ validateExistantKey(result.m[x].effective_value,
                                                store[x]) # "")
    IN  [i \in DOMAIN invalid |->
            Error(invalid[i],
                  validateExistantKey(result.m[invalid[i]].effective_value,
                                      store[invalid[i]]))]

\* A variant that replaces the user values instead of merging: a key
\* without a member in updates loses its user value.
previewUpdate_replaces(store, updates) ==
    IF ~isNull(updates) /\ ~isObject(updates)
    THEN [preview |-> dump(store),
          errors |-> {Error("", "The JSON document must be an object")},
          vector |-> <<Error("", "The JSON document must be an object")>>]
    ELSE LET result ==
                 Obj([k \in DOMAIN store |->
                        subdocOf(store[k],
                                 IF isMember(updates, k) THEN updates.m[k]
                                 ELSE Null)])
             appended == validateRequiredKeysExist(store, result)
                            \o validateExistantKeys(store, result)
         IN  [preview |-> result,
              errors |-> elements(appended),
              vector |-> appended]

\* A variant that takes the members of updates that are not registered
\* into the preview.
previewUpdate_keepsUnknown(store, updates) ==
    IF ~isNull(updates) /\ ~isObject(updates)
    THEN [preview |-> dump(store),
          errors |-> {Error("", "The JSON document must be an object")},
          vector |-> <<Error("", "The JSON document must be an object")>>]
    ELSE LET known ==
                 [k \in DOMAIN store |->
                        subdocOf(store[k],
                                 IF isMember(updates, k) THEN updates.m[k]
                                 ELSE store[k].userValue)]
             unknown ==
                 IF isObject(updates)
                 THEN [k \in DOMAIN updates.m \ DOMAIN store |->
                         [user_value |-> updates.m[k],
                          effective_value |-> updates.m[k]]]
                 ELSE << >>
             result == Obj(known @@ unknown)
             appended == validateRequiredKeysExist(store, result)
                            \o validateExistantKeys(store, result)
         IN  [preview |-> result,
              errors |-> elements(appended),
              vector |-> appended]

\* A variant without the test for a document that is no object.
previewUpdate_acceptsAnyDocument(store, updates) ==
    LET result ==
            Obj([k \in DOMAIN store |->
                   subdocOf(store[k],
                            IF isMember(updates, k) THEN updates.m[k]
                            ELSE store[k].userValue)])
        appended == validateRequiredKeysExist(store, result)
                       \o validateExistantKeys(store, result)
    IN  [preview |-> result,
         errors |-> elements(appended),
         vector |-> appended]

\* previewUpdate returns [preview, errors, vector]: vector is what it
\* appends to the vector of errors it is given, errors the set of these.
previewUpdate(store, updates) ==
    IF ~isNull(updates) /\ ~isObject(updates)
    THEN [preview |-> dump(store),
          errors |-> {Error("", "The JSON document must be an object")},
          vector |-> <<Error("", "The JSON document must be an object")>>]
    ELSE LET result ==
                 Obj([k \in DOMAIN store |->
                        subdocOf(store[k],
                                 IF isMember(updates, k) THEN updates.m[k]
                                 ELSE store[k].userValue)])
             appended == validateRequiredKeysExist(store, result)
                            \o validateExistantKeys(store, result)
         IN  [preview |-> result,
              errors |-> elements(appended),
              vector |-> appended]

\* A variant that installs only the user values of the type of their key.
forceApplyUpdatePreview_validOnly(store, preview) ==
    [k \in DOMAIN store |->
        [store[k] EXCEPT !.userValue =
            IF /\ isMember(preview, k)
               /\ validateExistantKey(preview.m[k].user_value, store[k]) = ""
            THEN preview.m[k].user_value
            ELSE store[k].userValue]]

forceApplyUpdatePreview(store, preview) ==
    [k \in DOMAIN store |->
        [store[k] EXCEPT !.userValue =
            IF isMember(preview, k) THEN preview.m[k].user_value ELSE Null]]

\* A variant that applies the preview whatever the validation says.
update_appliesAnyway(store, updates) ==
    LET p == previewUpdate(store, updates)
    IN  [ok |-> p.errors = {},
         store |-> forceApplyUpdatePreview(store, p.preview),
         errors |-> p.errors, vector |-> p.vector]

\* update returns [ok, store, errors, vector].
update(store, updates) ==
    LET p == previewUpdate(store, updates)
    IN  IF p.errors = {}
        THEN [ok |-> TRUE, store |-> forceApplyUpdatePreview(store, p.preview),
              errors |-> p.errors, vector |-> p.vector]
        ELSE [ok |-> FALSE, store |-> store, errors |-> p.errors,
              vector |-> p.vector]

(***************************************************************************)
(* WebSocketCommandReverseServer: the state of the channel.                *)
(***************************************************************************)
VARIABLES
    config,               \* ConfigStore config
    logPrefix,            \* string logPrefix, the cache of config["log_prefix"]
    conn,                 \* ConnectionPtr conn: a connection id, or NoConn
    timer,                \* the deadline timer and its queued completions
    state,                \* State state
    reconnectAfterReply,  \* bool reconnectAfterReply
    shuttingDown,         \* bool shuttingDown
    shutdownCallback,     \* Callback shutdownCallback: "empty" or "cb"
    endpoint,             \* Endpoint endpoint: the connection objects
    crashed,              \* "no", or how the process aborted
    configures,           \* the number of configure() calls so far
    ev                    \* what the last handler was given and what it did

\* A ConfigStore on its own, for what is said of the store as such.
VARIABLES
    store,                \* StringKeyTable<Entry> entries of that store
    sev                   \* the last call on that store and what it returned

vars ==
    <<config, logPrefix, conn, timer, state, reconnectAfterReply,
      shuttingDown, shutdownCallback, endpoint, crashed, configures, ev,
      store, sev>>

NoConn == 0

ConnIds == 1 .. MaxConns

States ==
    {"UNINITIALIZED", "NOT_CONNECTED", "CONNECTING", "WAITING_FOR_REQUEST",
     "REPLYING", "CLOSING", "SHUT_DOWN"}

\* websocketpp::close::status values used by the channel.
GOING_AWAY == "going_away"

NORMAL == "normal"

SERVICE_RESTART == "service_restart"

\* The session states of a connection object in which the transport is
\* alive, so that the event loop has work pending for it.
Live == {"connecting", "open", "closing", "peer_closing"}

\* A connection object: net is its session state ("free": no such object;
\* "created": made by get_connection and never connected; "closing": the
\* channel sent a close frame; "peer_closing": the peer sent one and the
\* endpoint is answering it), pingOut whether a ping awaits its pong or its
\* pong timeout, paused whether reading is paused, replyPending whether the
\* message handler still owes a doneReplying for it, url the url it was
\* dialled with, done whether the channel has processed its close or its
\* connect failure.
FreshConn ==
    [net |-> "free", pingOut |-> FALSE, paused |-> FALSE,
     replyPending |-> FALSE, url |-> "", done |-> FALSE]

\* The uris the endpoint accepts in get_connection and in set_proxy.
ValidUri(url) == url \in {"ws://a", "ws://b"}

ValidProxyUri(url) == url \in {"http://p"}

\* ev: the handler that ran last (op), the connection handle it was given
\* (hdl), whether that handle was the current connection (current), the
\* document it was given (input), and what it did: the states it assigned
\* (writes), the closes it asked the connection for (closes), the pings it
\* sent (pings), its invocations of the message handler (handled), of the
\* configure callback (cb) and of the shutdown callback (shutdownCb), and
\* the document it handed to the state callback (doc).  cbGiven tells
\* whether configure() or shutdown() was called with a callback.
NewEv(op, hdl, input, current) ==
    [op |-> op, hdl |-> hdl, input |-> input, current |-> current,
     cbGiven |-> FALSE, writes |-> << >>, closes |-> << >>, pings |-> 0, handled |-> 0,
     cb |-> << >>, shutdownCb |-> 0, doc |-> Null]

initializeConfigStore ==
    LET k1 == registerKey(EmptyStore, "url", "STRING_TYPE", REQUIRED,
                          NoGetter).store
        k2 == registerKey(k1, "log_prefix", "STRING_TYPE", OPTIONAL,
                          NoGetter).store
        k3 == registerKey(k2, "proxy_url", "STRING_TYPE", OPTIONAL,
                          NoGetter).store
        k4 == registerKey(k3, "proxy_username", "STRING_TYPE", OPTIONAL,
                          NoGetter).store
        k5 == registerKey(k4, "proxy_password", "STRING_TYPE", OPTIONAL,
                          NoGetter).store
        k6 == registerKey(k5, "proxy_timeout", "FLOAT_TYPE", OPTIONAL,
                          staticDefaultValue(Real(30000))).store
        k7 == registerKey(k6, "connect_timeout", "FLOAT_TYPE", OPTIONAL,
                          staticDefaultValue(Real(30000))).store
        k8 == registerKey(k7, "ping_interval", "FLOAT_TYPE", OPTIONAL,
                          staticDefaultValue(Real(30000))).store
        k9 == registerKey(k8, "ping_timeout", "FLOAT_TYPE", OPTIONAL,
                          staticDefaultValue(Real(30000))).store
        k10 == registerKey(k9, "close_timeout", "FLOAT_TYPE", OPTIONAL,
                           staticDefaultValue(Real(50000))).store
    IN  registerKey(k10, "reconnect_timeout", "FLOAT_TYPE", OPTIONAL,
                    staticDefaultValue(Real(5000))).store

\* The configuration the channel is constructed with.
InitialConfig == Obj([url |-> Str("ws://a")])

\* The configurations the constructor is given: the one above, and one with
\* a url that passes validation (a string) and that the endpoint rejects.
InitialConfigs == {InitialConfig, Obj([url |-> Str("bad")])}

\* The documents configure() is called with: a new url and log prefix; an
\* empty proxy url; a url the endpoint rejects; the url the channel already
\* has; a null url (invalid) with a new log prefix; a document that is no
\* object.
ConfigureDocs ==
    {Obj([url |-> Str("ws://b"), log_prefix |-> Str("L"),
          unknown |-> Bool(TRUE)]),
     Obj([proxy_url |-> Str("")]),
     Obj([url |-> Str("bad")]),
     Obj([url |-> Str("ws://a")]),
     Obj([url |-> Null, log_prefix |-> Str("M")]),
     Str("hello")}

(***************************************************************************)
(* The handlers.  Each is an operator from the channel, a record m of the  *)
(* variables, to the channel after the handler.                            *)
(***************************************************************************)
\* A state assignment made under boost::lock_guard on stateSyncher.
setState(m, s) ==
    [m EXCEPT !.state = s,
              !.ev.writes = Append(@, [st |-> s, locked |-> TRUE])]

\* P_BUG and a failed P_ASSERT_EQ abort the process.
abort(m, how) == [m EXCEPT !.crashed = how]

\* A variant that forgets to compare the handle with conn.
isCurrentConnection_nullCheckOnly(m, wconn) == m.conn # NoConn

isCurrentConnection(m, wconn) == m.conn # NoConn /\ wconn = m.conn

updateConfigCache(m) ==
    [m EXCEPT !.logPrefix = asString(get(m.config, "log_prefix"))]

\* timer->cancel(): a pending wait completes with operation_canceled, which
\* onTimeout ignores; a completion that is already queued is not affected.
timerCancel(m) ==
    [m EXCEPT !.timer = [@ EXCEPT !.armed = FALSE, !.ms = 0]]

\* expires_from_now() cancels a pending wait; async_wait() starts one.
restartTimer(m, ms) ==
    [m EXCEPT !.timer = [@ EXCEPT !.armed = TRUE, !.ms = ms]]

\* A variant that waits for ping_interval.
scheduleReconnect_pingInterval(m) ==
    restartTimer(m, asMillis(get(m.config, "ping_interval")))

scheduleReconnect(m) ==
    restartTimer(m, asMillis(get(m.config, "reconnect_timeout")))

\* A variant that leaves the state to the close handler: it does not
\* assign CLOSING.
closeConnection_skipsClosing(m, code, reason) ==
    LET m1 == timerCancel([m EXCEPT !.reconnectAfterReply = FALSE])
        failed(x) == scheduleReconnect(setState(x, "NOT_CONNECTED"))
    IN  IF m1.conn = NoConn
        THEN IF m1.ub = "crash" THEN abort(m1, "null_deref")
             ELSE failed(m1)
        ELSE IF m1.endpoint[m1.conn].net = "open"
        THEN [m1 EXCEPT !.endpoint[m1.conn].net = "closing",
                        !.ev.closes = Append(@, [code |-> code,
                                  reason |-> reason, sent |-> TRUE])]
        ELSE failed([m1 EXCEPT !.ev.closes = Append(@, [code |-> code,
                                  reason |-> reason, sent |-> FALSE])])

\* conn->close(code, reason, ec) reports an error unless the session is
\* open.  With conn null (no connection object since a dial with an invalid
\* url) the call is a null dereference: the process dies, or the call
\* comes back as a failed close.
closeConnection(m, code, reason) ==
    LET m1 == timerCancel([setState(m, "CLOSING")
                             EXCEPT !.reconnectAfterReply = FALSE])
        failed(x) == scheduleReconnect(setState(x, "NOT_CONNECTED"))
    IN  IF m1.conn = NoConn
        THEN IF m1.ub = "crash" THEN abort(m1, "null_deref")
             ELSE failed(m1)
        ELSE IF m1.endpoint[m1.conn].net = "open"
        THEN [m1 EXCEPT !.endpoint[m1.conn].net = "closing",
                        !.ev.closes = Append(@, [code |-> code,
                                  reason |-> reason, sent |-> TRUE])]
        ELSE failed([m1 EXCEPT !.ev.closes = Append(@, [code |-> code,
                                  reason |-> reason, sent |-> FALSE])])

applyConnectionConfig(m) ==
    LET proxy == get(m.config, "proxy_url")
    IN  isNull(proxy) \/ ValidProxyUri(asString(proxy))

\* The ids a new connection object can take: those of no object, and the
\* one of the object conn gives up when nothing else refers to it.
FreeIds(m) ==
    {c \in ConnIds :
        \/ m.endpoint[c].net = "free"
        \/ /\ c = m.conn
           /\ m.endpoint[c].net \notin Live
           /\ ~m.endpoint[c].replyPending}

Min(S) == CHOOSE x \in S : \A y \in S : x <= y

startConnect(m) ==
    LET m1 == setState(m, "CONNECTING")
        url == asString(get(m1.config, "url"))
    IN  IF ~ValidUri(url)
        THEN scheduleReconnect(
                 setState([m1 EXCEPT !.conn = NoConn], "NOT_CONNECTED"))
        ELSE IF FreeIds(m1) = {}
        THEN [m1 EXCEPT !.blocked = TRUE]
        ELSE LET c == Min(FreeIds(m1))
                 m2 == [m1 EXCEPT !.conn = c,
                                  !.endpoint[c] =
                                      [FreshConn EXCEPT !.net = "created",
                                                        !.url = url]]
             IN  IF ~applyConnectionConfig(m2)
                 THEN scheduleReconnect(setState(m2, "NOT_CONNECTED"))
                 ELSE [m2 EXCEPT !.endpoint[c].net = "connecting"]

\* A variant that closes only a connection that is being set up.
internalReconnect_keepsOpenConnection(m) ==
    CASE m.state \in {"NOT_CONNECTED", "WAITING_FOR_REQUEST"} -> m
      [] m.state = "CONNECTING" ->
            closeConnection(m, SERVICE_RESTART,
                "reestablishing connection in order to apply configuration updates")
      [] m.state = "REPLYING" -> [m EXCEPT !.reconnectAfterReply = TRUE]
      [] OTHER -> abort(m, "P_BUG")

internalReconnect(m) ==
    CASE m.state = "NOT_CONNECTED" -> m
      [] m.state \in {"CONNECTING", "WAITING_FOR_REQUEST"} ->
            closeConnection(m, SERVICE_RESTART,
                "reestablishing connection in order to apply configuration updates")
      [] m.state = "REPLYING" -> [m EXCEPT !.reconnectAfterReply = TRUE]
      [] OTHER -> abort(m, "P_BUG")

\* The ConfigCallback, invoked with (preview, errors).
callback(m, cb, preview, errors) ==
    IF cb
    THEN [m EXCEPT !.ev.cb = Append(@, [preview |-> preview,
                                        errors |-> errors])]
    ELSE m

internalConfigure(m, updates, cb) ==
    LET p == previewUpdate(m.config, updates)
    IN  IF p.errors # {}
        THEN callback(m, cb, p.preview, p.errors)
        ELSE LET newConfig == forceApplyUpdatePreview(m.config, p.preview)
                 shouldReconnect ==
                     \/ asString(get(newConfig, "url"))
                            # asString(get(m.config, "url"))
                     \/ asString(get(newConfig, "proxy_url"))
                            # asString(get(m.config, "proxy_url"))
                 m1 == updateConfigCache(
                           [m EXCEPT !.config = forceApplyUpdatePreview(
                                                    m.config, p.preview)])
                 m2 == IF shouldReconnect THEN internalReconnect(m1) ELSE m1
             IN  IF m2.crashed # "no" THEN m2
                 ELSE callback(m2, cb, p.preview, p.errors)

internalInspectState(m) ==
    [m EXCEPT !.ev.doc =
        Obj([state |-> Str(m.state)]
            @@ (IF m.reconnectAfterReply
                THEN [reconnect_planned |-> Bool(TRUE)] ELSE << >>)
            @@ (IF m.shuttingDown
                THEN [shutting_down |-> Bool(TRUE)] ELSE << >>))]

internalShutdown(m, cb) ==
    closeConnection([m EXCEPT !.shuttingDown = TRUE,
                              !.shutdownCallback = cb],
                    GOING_AWAY, "shutting down")

onConnected(m, wconn) ==
    IF ~isCurrentConnection(m, wconn) THEN m
    ELSE restartTimer(setState(m, "WAITING_FOR_REQUEST"),
                      asMillis(get(m.config, "ping_interval")))

\* A variant that leaves the channel idle after a failed dial.
onConnectFailed_staysIdle(m, wconn) ==
    IF ~isCurrentConnection(m, wconn) THEN m
    ELSE setState(m, "NOT_CONNECTED")

onConnectFailed(m, wconn) ==
    IF ~isCurrentConnection(m, wconn) THEN m
    ELSE scheduleReconnect(setState(m, "NOT_CONNECTED"))

\* A variant that leaves reconnectAfterReply as it is.
onConnectionClosed_keepsFlag(m, wconn) ==
    IF ~isCurrentConnection(m, wconn) THEN m
    ELSE LET m1 == setState(m, "NOT_CONNECTED")
         IN  IF m1.shuttingDown THEN timerCancel(m1)
             ELSE scheduleReconnect(m1)

onConnectionClosed(m, wconn) ==
    IF ~isCurrentConnection(m, wconn) THEN m
    ELSE LET m1 == [setState(m, "NOT_CONNECTED")
                      EXCEPT !.reconnectAfterReply = FALSE]
         IN  IF m1.shuttingDown THEN timerCancel(m1)
             ELSE scheduleReconnect(m1)

\* conn->ping("ping", ec) reports an error unless the session is open.
ping(m) ==
    IF m.endpoint[m.conn].net = "open"
    THEN [ok |-> TRUE,
          m |-> [m EXCEPT !.endpoint[m.conn].pingOut = TRUE,
                          !.ev.pings = @ + 1]]
    ELSE [ok |-> FALSE, m |-> m]

\* A variant that schedules the next ping itself, once the ping is sent.
onTimeout_rearmsAfterPing(m, e) ==
    IF e = "operation_canceled" THEN m
    ELSE CASE m.state = "NOT_CONNECTED" -> startConnect(m)
           [] m.state \in {"WAITING_FOR_REQUEST", "REPLYING"} ->
                IF ping(m).ok
                THEN restartTimer(ping(m).m,
                                  asMillis(get(m.config, "ping_interval")))
                ELSE closeConnection(ping(m).m, NORMAL, "error sending ping")
           [] OTHER -> abort(m, "P_BUG")

onTimeout(m, e) ==
    IF e = "operation_canceled" THEN m
    ELSE CASE m.state = "NOT_CONNECTED" -> startConnect(m)
           [] m.state \in {"WAITING_FOR_REQUEST", "REPLYING"} ->
                IF ping(m).ok THEN ping(m).m
                ELSE closeConnection(ping(m).m, NORMAL, "error sending ping")
           [] OTHER -> abort(m, "P_BUG")

\* A variant without the REPLYING case.
onPongTimeout_closesWhileReplying(m, wconn) ==
    IF ~isCurrentConnection(m, wconn) THEN m
    ELSE closeConnection(m, NORMAL, "reconnecting because of pong timeout")

onPongTimeout(m, wconn) ==
    IF ~isCurrentConnection(m, wconn) THEN m
    ELSE IF m.state = "REPLYING" THEN m
    ELSE closeConnection(m, NORMAL, "reconnecting because of pong timeout")

onPong(m, wconn) ==
    IF ~isCurrentConnection(m, wconn) THEN m
    ELSE restartTimer(m, asMillis(get(m.config, "ping_interval")))

doneReplying(m, wconn) ==
    IF ~isCurrentConnection(m, wconn) THEN m
    ELSE IF m.state # "REPLYING" THEN abort(m, "P_ASSERT_EQ")
    ELSE LET m1 == [setState(m, "WAITING_FOR_REQUEST")
                      EXCEPT !.endpoint[m.conn].paused = FALSE]
         IN  IF m1.reconnectAfterReply
             THEN internalReconnect([m1 EXCEPT !.reconnectAfterReply = FALSE])
             ELSE m1

\* The injected message handler: it returns ret; when it returns false it
\* keeps wconn and calls doneReplying(wconn) later.
messageHandler(m, wconn, ret) ==
    [m EXCEPT !.ev.handled = @ + 1, !.ev.input = Bool(ret),
              !.endpoint[wconn].replyPending = ~ret]

\* A variant that takes every reply for an asynchronous one.
onMessage_alwaysPauses(m, wconn, ret) ==
    IF ~isCurrentConnection(m, wconn) THEN m
    ELSE CASE m.state = "WAITING_FOR_REQUEST" ->
                LET m1 == messageHandler(setState(m, "REPLYING"), wconn, ret)
                IN  [m1 EXCEPT !.endpoint[m1.conn].paused = TRUE]
           [] m.state = "CLOSING" -> m
           [] OTHER -> abort(m, "P_BUG")

onMessage(m, wconn, ret) ==
    IF ~isCurrentConnection(m, wconn) THEN m
    ELSE CASE m.state = "WAITING_FOR_REQUEST" ->
                LET m1 == messageHandler(setState(m, "REPLYING"), wconn, ret)
                IN  IF ret THEN doneReplying(m1, wconn)
                    ELSE [m1 EXCEPT !.endpoint[m1.conn].paused = TRUE]
           [] m.state = "CLOSING" -> m
           [] OTHER -> abort(m, "P_BUG")

\* A variant that gives up when the connection cannot be set up.
initialize_noRetry(m) ==
    LET m1 == startConnect([m EXCEPT !.state = "NOT_CONNECTED",
                           !.ev.writes = Append(@, [st |-> "NOT_CONNECTED",
                                                    locked |-> FALSE]),
                           !.timer.created = TRUE])
    IN  timerCancel(m1)

\* initialize() assigns NOT_CONNECTED without taking the lock.
initialize(m) ==
    startConnect([m EXCEPT !.state = "NOT_CONNECTED",
                           !.ev.writes = Append(@, [st |-> "NOT_CONNECTED",
                                                    locked |-> FALSE]),
                           !.timer.created = TRUE])

\* run(), from the return of endpoint.run() on.
run(m) ==
    LET m1 == setState(m, "SHUT_DOWN")
    IN  IF m1.shutdownCallback = "cb"
        THEN [m1 EXCEPT !.ev.shutdownCb = @ + 1] ELSE m1

(***************************************************************************)
(* The actions: one per handler invocation.                                *)
(***************************************************************************)
\* The channel as a handler finds it; ev describes the invocation.  ub
\* (what a null dereference does) and blocked (the model has no connection
\* object left for a dial) do not outlive the handler.
Begin(op, hdl, input) ==
    [config |-> config, logPrefix |-> logPrefix, conn |-> conn,
     timer |-> timer, state |-> state,
     reconnectAfterReply |-> reconnectAfterReply,
     shuttingDown |-> shuttingDown, shutdownCallback |-> shutdownCallback,
     endpoint |-> endpoint, crashed |-> crashed,
     ev |-> NewEv(op, hdl, input, conn # NoConn /\ hdl = conn),
     ub |-> "crash", blocked |-> FALSE]

\* A connection object is destroyed when its transport is gone and neither
\* conn nor the message handler refers to it.  Of a connection that conn
\* gave up, the url and whether its end was processed no longer matter.
Collect(m) ==
    [c \in ConnIds |->
        IF c = m.conn THEN m.endpoint[c]
        ELSE IF /\ m.endpoint[c].net \notin Live
                /\ ~m.endpoint[c].replyPending
        THEN FreshConn
        ELSE [m.endpoint[c] EXCEPT !.url = "", !.done = FALSE]]

Commit(m) ==
    /\ ~m.blocked
    /\ config' = m.config
    /\ logPrefix' = m.logPrefix
    /\ conn' = m.conn
    /\ timer' = m.timer
    /\ state' = m.state
    /\ reconnectAfterReply' = m.reconnectAfterReply
    /\ shuttingDown' = m.shuttingDown
    /\ shutdownCallback' = m.shutdownCallback
    /\ endpoint' = Collect(m)
    /\ crashed' = m.crashed
    /\ configures' = IF m.ev.op = "configure" THEN configures + 1
                     ELSE configures
    /\ ev' = m.ev
    /\ UNCHANGED <<store, sev>>

\* The event loop is running: initialize() was called, run() has not
\* returned and the process has not aborted.
Running ==
    crashed = "no" /\ state \notin {"UNINITIALIZED", "SHUT_DOWN"}

\* The channel has processed the close or the connect failure of wconn.
MarkDone(m, wconn) ==
    IF m.ev.current THEN [m EXCEPT !.endpoint[wconn].done = TRUE] ELSE m

Initialize ==
    /\ crashed = "no"
    /\ state = "UNINITIALIZED"
    /\ Commit(initialize(Begin("initialize", NoConn, Null)))

\* The deadline of the timer passes: its completion is queued.
TimerExpire ==
    /\ Running
    /\ timer.armed
    /\ timer.ready < MaxTimerReady
    /\ Commit([Begin("timer_expires", NoConn, Null)
                 EXCEPT !.timer.armed = FALSE, !.timer.ready = @ + 1])

OnTimeout ==
    /\ Running
    /\ timer.ready > 0
    /\ Commit(onTimeout([Begin("onTimeout", NoConn, Null)
                           EXCEPT !.timer.ready = @ - 1], "success"))

\* The opening handshake of c completes.
NetConnected(c) ==
    /\ Running
    /\ endpoint[c].net = "connecting"
    /\ Commit(onConnected([Begin("onConnected", c, Null)
                             EXCEPT !.endpoint[c].net = "open"], c))

\* The connect attempt of c fails.
NetConnectFailed(c) ==
    /\ Running
    /\ endpoint[c].net = "connecting"
    /\ Commit(MarkDone(onConnectFailed([Begin("onConnectFailed", c, Null)
                             EXCEPT !.endpoint[c].net = "closed"], c), c))

\* The peer sends a close frame on c and the endpoint, reading it, starts
\* answering it.  (On a connection conn gave up the step shows in nothing:
\* NetCloseComplete alone stands for its end.)
NetPeerClosing(c) ==
    /\ Running
    /\ c = conn
    /\ endpoint[c].net = "open"
    /\ ~endpoint[c].paused
    /\ Commit([Begin("peer_closing", c, Null)
                 EXCEPT !.endpoint[c].net = "peer_closing"])

\* The closing handshake of c ends, or its transport is lost.
NetCloseComplete(c) ==
    /\ Running
    /\ endpoint[c].net \in {"open", "closing", "peer_closing"}
    /\ Commit(MarkDone(onConnectionClosed(
                  [Begin("onConnectionClosed", c, Null)
                     EXCEPT !.endpoint[c].net = "closed",
                            !.endpoint[c].pingOut = FALSE], c), c))

\* A pong arrives on c.
NetPong(c) ==
    /\ Running
    /\ endpoint[c].net \in {"open", "closing"}
    /\ endpoint[c].pingOut
    /\ ~endpoint[c].paused
    /\ Commit(onPong([Begin("onPong", c, Null)
                        EXCEPT !.endpoint[c].pingOut = FALSE], c))

\* The pong timeout of c expires.
NetPongTimeout(c) ==
    /\ Running
    /\ endpoint[c].net \in {"open", "closing", "peer_closing"}
    /\ endpoint[c].pingOut
    /\ Commit(onPongTimeout([Begin("onPongTimeout", c, Null)
                               EXCEPT !.endpoint[c].pingOut = FALSE], c))

\* A frame arrives on c; ret is what the message handler returns if the
\* channel invokes it.
NetMessage(c, ret) ==
    /\ Running
    /\ endpoint[c].net \in {"open", "closing"}
    /\ ~endpoint[c].paused
    /\ Commit(onMessage(Begin("onMessage", c, Null), c, ret))

\* The message handler finishes an asynchronous reply on c.
DoneReplying(c) ==
    /\ Running
    /\ endpoint[c].replyPending
    /\ Commit(doneReplying([Begin("doneReplying", c, Null)
                              EXCEPT !.endpoint[c].replyPending = FALSE], c))

\* A posted configure(updates, callback) runs.
Configure(updates, cb) ==
    /\ Running
    /\ configures < MaxConfigures
    /\ Commit(internalConfigure([Begin("configure", NoConn, updates)
                                    EXCEPT !.ev.cbGiven = cb], updates, cb))

\* A posted shutdown(callback) runs; ub decides what a null conn does to it.
Shutdown(cb, ub) ==
    /\ Running
    /\ Commit(internalShutdown([Begin("shutdown", NoConn, Null)
                                  EXCEPT !.ub = ub,
                                         !.ev.cbGiven = (cb = "cb")], cb))

\* Nothing is left for the event loop to wait for.
Drained ==
    /\ ~timer.armed
    /\ timer.ready = 0
    /\ \A c \in ConnIds :
          endpoint[c].net \notin Live /\ ~endpoint[c].replyPending

\* endpoint.run() returns.
RunReturns ==
    /\ Running
    /\ Drained
    /\ Commit(run(Begin("run", NoConn, Null)))

\* A call on the store: the operation, its argument, and what it returned
\* (ok: the bool of update, or FALSE where registerKey throws; vector: the
\* errors appended, errors: the set of them; result: the document or value
\* returned).
NewSev(op, input) ==
    [op |-> op, input |-> input, ok |-> TRUE, errors |-> {},
     vector |-> << >>, result |-> Null]

Init ==
    /\ \E initial \in InitialConfigs :
          /\ config = update(initializeConfigStore, initial).store
          /\ ev = NewEv("construct", NoConn, initial, FALSE)
    /\ logPrefix = asString(get(config, "log_prefix"))
    /\ conn = NoConn
    /\ timer = [created |-> FALSE, armed |-> FALSE, ms |-> 0, ready |-> 0]
    /\ state = "UNINITIALIZED"
    /\ reconnectAfterReply = FALSE
    /\ shuttingDown = FALSE
    /\ shutdownCallback = "empty"
    /\ endpoint = [c \in ConnIds |-> FreshConn]
    /\ crashed = "no"
    /\ configures = 0
    /\ store = EmptyStore
    /\ sev = NewSev("construct", Null)

Next ==
    \/ Initialize
    \/ TimerExpire
    \/ OnTimeout
    \/ \E c \in ConnIds : NetConnected(c)
    \/ \E c \in ConnIds : NetConnectFailed(c)
    \/ \E c \in ConnIds : NetPeerClosing(c)
    \/ \E c \in ConnIds : NetCloseComplete(c)
    \/ \E c \in ConnIds : NetPong(c)
    \/ \E c \in ConnIds : NetPongTimeout(c)
    \/ \E c \in ConnIds : \E ret \in BOOLEAN : NetMessage(c, ret)
    \/ \E c \in ConnIds : DoneReplying(c)
    \/ \E updates \in ConfigureDocs : \E cb \in BOOLEAN : Configure(updates, cb)
    \/ \E cb \in {"empty", "cb"} : \E ub \in {"crash", "error"} : Shutdown(cb, ub)
    \/ RunReturns

Spec == Init /\ [][Next]_vars

\* A closing handshake that has begun comes to its end.
CloseHandshakeEnds ==
    \E c \in ConnIds :
       /\ endpoint[c].net \in {"closing", "peer_closing"}
       /\ NetCloseComplete(c)

\* The event loop under fair scheduling: a queued completion is run, a
\* deadline passes, a dial and a closing handshake come to an end, a ping
\* is answered or times out, the message handler comes back to
\* doneReplying(), and run() returns once nothing is left.  What the peer
\* and the callers of configure() and shutdown() do is left to them.
FairSpec ==
    /\ Spec
    /\ WF_vars(TimerExpire)
    /\ WF_vars(OnTimeout)
    /\ WF_vars(\E c \in ConnIds : NetConnected(c) \/ NetConnectFailed(c))
    /\ WF_vars(CloseHandshakeEnds)
    /\ WF_vars(\E c \in ConnIds : NetPong(c) \/ NetPongTimeout(c))
    /\ WF_vars(\E c \in ConnIds : DoneReplying(c))
    /\ WF_vars(RunReturns)

(***************************************************************************)
(* A ConfigStore on its own: keys are registered, and documents are        *)
(* previewed, applied and read back, in any order.                         *)
(***************************************************************************)
\* The schemas registerKey is given.  Key "a" takes every type, required or
\* optional, with or without a default value; key "b" is a required
\* integer.
RegisterChoices ==
    [key : {"a"},
     type : {"STRING_TYPE", "INTEGER_TYPE", "UNSIGNED_INTEGER_TYPE",
             "FLOAT_TYPE", "BOOLEAN_TYPE"},
     options : {OPTIONAL, REQUIRED},
     getter : {NoGetter, staticDefaultValue(JInt(7))}]
    \cup {[key |-> "b", type |-> "INTEGER_TYPE", options |-> REQUIRED,
           getter |-> NoGetter]}

\* The keys asked for; "zz" is never registered.
StoreKeys == {"a", "b", "zz"}

\* No such member in a document.
Absent == [t |-> "absent", s |-> "", n |-> 0]

\* The documents given to previewUpdate and update: null, two documents
\* that are no objects, the objects with or without a member for each of
\* the keys "a" and "b" (for "a": null, a string, integers, a boolean, the
\* real 1.5 and an empty object), and two objects with a member "zz".
UpdateDocs ==
    {Null, Str("hello"), JInt(5)}
    \cup {Obj([k \in {x \in {"a", "b"} : c[x] # Absent} |-> c[k]]) :
            c \in [a : {Absent, Null, Str("x"), JInt(3), JInt(-1),
                        Bool(TRUE), Real(1500), Obj(<< >>)},
                   b : {Absent, JInt(3)}]}
    \cup {Obj([zz |-> JInt(3)]), Obj([a |-> Str("x"), zz |-> JInt(3)])}

\* The variables of the channel stay as they are.
ChannelIdle ==
    UNCHANGED <<config, logPrefix, conn, timer, state, reconnectAfterReply,
                shuttingDown, shutdownCallback, endpoint, crashed,
                configures, ev>>

StoreRegisterKey(c) ==
    LET r == registerKey(store, c.key, c.type, c.options, c.getter)
    IN  /\ store' = r.store
        /\ sev' = [NewSev("registerKey", c) EXCEPT !.ok = r.ok]
        /\ ChannelIdle

\* A variant in which the preview is written to the store.
StorePreviewUpdate_applies(updates) ==
    LET r == previewUpdate(store, updates)
    IN  /\ store' = forceApplyUpdatePreview(store, r.preview)
        /\ sev' = [NewSev("previewUpdate", updates)
                     EXCEPT !.errors = r.errors, !.vector = r.vector,
                            !.result = r.preview]
        /\ ChannelIdle

\* previewUpdate is a const method: it writes to its locals and to errors.
StorePreviewUpdate(updates) ==
    LET r == previewUpdate(store, updates)
    IN  /\ store' = store
        /\ sev' = [NewSev("previewUpdate", updates)
                     EXCEPT !.errors = r.errors, !.vector = r.vector,
                            !.result = r.preview]
        /\ ChannelIdle

\* forceApplyUpdatePreview, given what previewUpdate(updates) returned.
StoreForceApplyUpdatePreview(updates) ==
    LET r == previewUpdate(store, updates)
    IN  /\ store' = forceApplyUpdatePreview(store, r.preview)
        /\ sev' = [NewSev("forceApplyUpdatePreview", updates)
                     EXCEPT !.errors = r.errors, !.vector = r.vector,
                            !.result = r.preview]
        /\ ChannelIdle

StoreUpdate(updates) ==
    LET r == update(store, updates)
    IN  /\ store' = r.store
        /\ sev' = [NewSev("update", updates)
                     EXCEPT !.ok = r.ok, !.errors = r.errors,
                            !.vector = r.vector]
        /\ ChannelIdle

StoreGet(key) ==
    /\ store' = store
    /\ sev' = [NewSev("get", Str(key)) EXCEPT !.result = get(store, key)]
    /\ ChannelIdle

StoreDump ==
    /\ store' = store
    /\ sev' = [NewSev("dump", Null) EXCEPT !.result = dump(store)]
    /\ ChannelIdle

StoreNext ==
    \/ \E c \in RegisterChoices : StoreRegisterKey(c)
    \/ \E updates \in UpdateDocs : StorePreviewUpdate(updates)
    \/ \E updates \in UpdateDocs : StoreForceApplyUpdatePreview(updates)
    \/ \E updates \in UpdateDocs : StoreUpdate(updates)
    \/ \E key \in StoreKeys : StoreGet(key)
    \/ StoreDump

\* The store starts empty, beside a channel that was constructed with
\* InitialConfig and is left alone.
StoreInit == Init /\ ev.input = InitialConfig

StoreSpec == StoreInit /\ [][StoreNext]_vars

(***************************************************************************)
(* The claims.                                                             *)
(***************************************************************************)
\* The callbacks that are given a connection handle.
Callbacks ==
    {"onConnected", "onConnectFailed", "onConnectionClosed", "onPong",
     "onPongTimeout", "onMessage", "doneReplying"}

\* A step leaves the channel as it was.
ChannelUnchanged ==
    /\ state' = state
    /\ reconnectAfterReply' = reconnectAfterReply
    /\ shuttingDown' = shuttingDown
    /\ shutdownCallback' = shutdownCallback
    /\ timer' = timer
    /\ conn' = conn
    /\ config' = config
    /\ logPrefix' = logPrefix
    /\ crashed' = crashed

\* The handler of a step assigned no state, asked for no close, sent no
\* ping and did not invoke the message handler.
NothingDone ==
    /\ ev'.writes = << >>
    /\ ev'.closes = << >>
    /\ ev'.pings = 0
    /\ ev'.handled = 0

\* The configure of a step passed validation.
ConfigureValid == previewUpdate(config, ev'.input).errors = {}

\* The configure of a step changed the effective url or proxy_url.
UrlOrProxyChanged ==
    \/ get(config', "url") # get(config, "url")
    \/ get(config', "proxy_url") # get(config, "proxy_url")

\* C1: a callback (onConnected, onConnectFailed, onConnectionClosed, onPong,
\* onPongTimeout, onMessage) or doneReplying that is given a handle other
\* than the current connection changes nothing of the channel: state, flags,
\* timer, conn and config stay, no close and no ping is sent and the message
\* handler is not invoked.
C1_StaleCallbackIsNoOp ==
    [][(ev'.op \in Callbacks /\ ~ev'.current)
          => (ChannelUnchanged /\ NothingDone)]_vars

\* A frame has arrived on a connection that another connection superseded.
C1_Witness ==
    /\ ev.op = "onMessage"
    /\ ~ev.current
    /\ conn \in ConnIds
    /\ ev.hdl \in ConnIds \ {conn}
    /\ state = "WAITING_FOR_REQUEST"

\* C2 (as claimed): once the channel has processed the close or the connect
\* failure of a connection, a callback or doneReplying that arrives with its
\* handle has no effect.
C2_ClosedHandleIsStale ==
    [][(/\ ev'.op \in Callbacks
        /\ ev'.hdl \in ConnIds
        /\ endpoint[ev'.hdl].done)
          => (ChannelUnchanged /\ NothingDone)]_vars

\* C3: a pong timeout for the current connection does nothing in REPLYING
\* (state, timer and reconnectAfterReply stay, no close); in every other
\* state it closes the connection: it asks for a close with code NORMAL and
\* the channel is CLOSING, or NOT_CONNECTED when the close call fails.
C3_PongTimeout ==
    [][(ev'.op = "onPongTimeout" /\ ev'.current)
          => IF state = "REPLYING"
             THEN /\ state' = "REPLYING"
                  /\ ev'.closes = << >>
                  /\ timer' = timer
                  /\ reconnectAfterReply' = reconnectAfterReply
             ELSE /\ Len(ev'.closes) = 1
                  /\ ev'.closes[1].code = NORMAL
                  /\ ev'.closes[1].reason
                        = "reconnecting because of pong timeout"
                  /\ state' = IF ev'.closes[1].sent THEN "CLOSING"
                              ELSE "NOT_CONNECTED"]_vars

\* A pong timeout was ignored while a reply was in flight.
C3_Witness ==
    /\ ev.op = "onPongTimeout"
    /\ ev.current
    /\ state = "REPLYING"
    /\ ev.closes = << >>

\* C4 (as claimed): a successful configure that changes url or proxy_url in
\* REPLYING sends no close, stays in REPLYING and sets reconnectAfterReply;
\* doneReplying for the current connection then clears the flag, sends a
\* SERVICE_RESTART close and goes to CLOSING.
C4_ReconfigureMidReply ==
    [][/\ (/\ ev'.op = "configure"
           /\ state = "REPLYING"
           /\ ConfigureValid
           /\ UrlOrProxyChanged)
          => (/\ ev'.closes = << >>
              /\ state' = "REPLYING"
              /\ reconnectAfterReply')
       /\ (/\ ev'.op = "doneReplying"
           /\ ev'.current
           /\ reconnectAfterReply)
          => (/\ ~reconnectAfterReply'
              /\ Len(ev'.closes) = 1
              /\ ev'.closes[1].code = SERVICE_RESTART
              /\ ev'.closes[1].sent
              /\ state' = "CLOSING")]_vars

\* C5 (as claimed): with a connection being set up, open or replying, a
\* successful configure triggers a reconnect (a SERVICE_RESTART close, or
\* reconnectAfterReply in REPLYING) if and only if the effective url or
\* proxy_url changed.
C5_ReconnectIffChanged ==
    [][(/\ ev'.op = "configure"
        /\ state \in {"CONNECTING", "WAITING_FOR_REQUEST", "REPLYING"}
        /\ ConfigureValid)
          => (UrlOrProxyChanged
                <=> IF state = "REPLYING"
                    THEN reconnectAfterReply' /\ ev'.closes = << >>
                    ELSE /\ Len(ev'.closes) = 1
                         /\ ev'.closes[1].code = SERVICE_RESTART)]_vars

\* C6 (as claimed): a configure that fails validation changes nothing and
\* invokes the callback, if given, once with the preview and a non-empty
\* error list; one that passes invokes it once with an empty error list.
C6_ConfigureCallback ==
    [][(ev'.op = "configure")
          => IF ConfigureValid
             THEN ev'.cbGiven
                     => (Len(ev'.cb) = 1 /\ ev'.cb[1].errors = {})
             ELSE /\ ChannelUnchanged
                  /\ endpoint' = endpoint
                  /\ NothingDone
                  /\ ev'.cbGiven
                        => /\ Len(ev'.cb) = 1
                           /\ ev'.cb[1].errors # {}
                           /\ ev'.cb[1].preview
                                 = previewUpdate(config, ev'.input).preview
                  /\ ~ev'.cbGiven => ev'.cb = << >>]_vars

\* C7 (as claimed): shutdown in WAITING_FOR_REQUEST sets shuttingDown, sends
\* a GOING_AWAY close with reason "shutting down" and goes to CLOSING; the
\* close of the connection then leaves the channel in NOT_CONNECTED with no
\* reconnect scheduled; run() on its return invokes the callback once.
C7_GracefulShutdown ==
    [][/\ (ev'.op = "shutdown" /\ state = "WAITING_FOR_REQUEST")
          => (/\ shuttingDown'
              /\ state' = "CLOSING"
              /\ ev'.closes = <<[code |-> GOING_AWAY,
                                 reason |-> "shutting down",
                                 sent |-> TRUE]>>
              /\ ~timer'.armed)
       /\ (ev'.op = "onConnectionClosed" /\ ev'.current /\ shuttingDown)
          => (state' = "NOT_CONNECTED" /\ ~timer'.armed)
       /\ (ev'.op = "run" /\ shutdownCallback = "cb")
          => ev'.shutdownCb = 1]_vars

\* C8 (as claimed): under fair scheduling of the event loop, once shutdown()
\* was processed run() returns: the state becomes SHUT_DOWN, and it is
\* SHUT_DOWN for good.  A run in which the process aborts is not held
\* against the claim here: what is asked is that a channel that keeps
\* running after shutdown() reaches SHUT_DOWN.
C8_ShutdownCompletes ==
    /\ shuttingDown ~> (state = "SHUT_DOWN" \/ crashed # "no")
    /\ [](state = "SHUT_DOWN" => [](state = "SHUT_DOWN"))

\* C9 (as claimed): with shuttingDown set the channel is never CONNECTING
\* again, and in NOT_CONNECTED the timer is not armed.
C9_NoReconnectWhenShuttingDown ==
    shuttingDown
       => /\ state # "CONNECTING"
          /\ state = "NOT_CONNECTED" => ~timer.armed

\* C10 (as claimed): shutdown processed in REPLYING leaves the state and the
\* connection alone until doneReplying.
C10_ShutdownLetsReplyFinish ==
    [][(ev'.op = "shutdown" /\ state = "REPLYING")
          => (state' = "REPLYING" /\ ev'.closes = << >>)]_vars

\* The states a handler assigned, in order.
StatesWritten(e) == [i \in 1..Len(e.writes) |-> e.writes[i].st]

\* C11: a frame on the current connection in WAITING_FOR_REQUEST whose
\* handler returns true: the handler is invoked once, the state is set to
\* REPLYING and back to WAITING_FOR_REQUEST within the callback, reading
\* stays enabled, no close is asked for and the timer is left as it was (no
\* reconnect is scheduled).
C11_SynchronousReply ==
    [][(/\ ev'.op = "onMessage"
        /\ ev'.current
        /\ state = "WAITING_FOR_REQUEST"
        /\ ev'.input = Bool(TRUE))
          => (/\ ev'.handled = 1
              /\ StatesWritten(ev') = <<"REPLYING", "WAITING_FOR_REQUEST">>
              /\ state' = "WAITING_FOR_REQUEST"
              /\ ~endpoint'[conn'].paused
              /\ ~endpoint'[conn'].replyPending
              /\ ev'.closes = << >>
              /\ timer' = timer
              /\ conn' = conn
              /\ crashed' = "no")]_vars

\* A frame was answered within its callback.
C11_Witness ==
    /\ ev.op = "onMessage"
    /\ ev.current
    /\ ev.input = Bool(TRUE)
    /\ ev.handled = 1
    /\ StatesWritten(ev) = <<"REPLYING", "WAITING_FOR_REQUEST">>
    /\ state = "WAITING_FOR_REQUEST"

\* The current connection has a reply in flight.
ReplyInFlight ==
    conn \in ConnIds /\ endpoint[conn].replyPending

\* C12 (as claimed): a frame on the current connection in
\* WAITING_FOR_REQUEST whose handler returns false leaves the state REPLYING
\* with reading paused; both stay so while the reply is in flight on the
\* connection; doneReplying with the current handle sets
\* WAITING_FOR_REQUEST and resumes reading; and between handlers the reading
\* of a current connection that is not closed is paused exactly when the
\* state is REPLYING.
C12_AsynchronousReply ==
    /\ []((conn \in ConnIds /\ endpoint[conn].net \in Live)
             => (endpoint[conn].paused <=> state = "REPLYING"))
    /\ [][/\ (/\ ev'.op = "onMessage"
              /\ ev'.current
              /\ state = "WAITING_FOR_REQUEST"
              /\ ev'.input = Bool(FALSE))
             => (state' = "REPLYING" /\ endpoint'[conn'].paused)
          /\ (/\ ReplyInFlight
              /\ state = "REPLYING"
              /\ ev'.op \notin {"doneReplying", "onConnectionClosed"})
             => (state' = "REPLYING" /\ endpoint'[conn'].paused)
          /\ (ev'.op = "doneReplying" /\ ev'.current)
             => (/\ ev'.writes # << >>
                 /\ ev'.writes[1].st = "WAITING_FOR_REQUEST"
                 /\ ~endpoint'[conn'].paused)]_vars

\* The close a pong timeout asks for.
PongTimeoutClose(sent) ==
    [code |-> NORMAL, reason |-> "reconnecting because of pong timeout",
     sent |-> sent]

\* The timer waits for reconnect_timeout.
ReconnectScheduled ==
    /\ timer'.armed
    /\ timer'.ms = asMillis(get(config', "reconnect_timeout"))

\* The close of the current connection is processed, the channel not
\* shutting down: NOT_CONNECTED, the timer armed for reconnect_timeout.
ClosedThenReconnectScheduled ==
    (ev'.op = "onConnectionClosed" /\ ev'.current /\ ~shuttingDown)
       => (state' = "NOT_CONNECTED" /\ ReconnectScheduled)

\* The timer fires in NOT_CONNECTED, the store holding a url and a proxy
\* the endpoint accepts: a connect attempt to that url starts.
TimeoutThenDial ==
    (/\ ev'.op = "onTimeout"
     /\ state = "NOT_CONNECTED"
     /\ ValidUri(asString(get(config, "url")))
     /\ applyConnectionConfig([config |-> config]))
       => (/\ state' = "CONNECTING"
           /\ conn' \in ConnIds
           /\ endpoint'[conn'].net = "connecting"
           /\ endpoint'[conn'].url = asString(get(config, "url")))

\* C13 (as claimed): a pong timeout for the current connection in
\* WAITING_FOR_REQUEST sends a NORMAL close with reason "reconnecting
\* because of pong timeout" and goes to CLOSING; the close of the
\* connection leaves NOT_CONNECTED with the timer armed for
\* reconnect_timeout; the timer firing then starts a connect attempt.
C13_PongTimeoutReconnects ==
    [][/\ (/\ ev'.op = "onPongTimeout"
           /\ ev'.current
           /\ state = "WAITING_FOR_REQUEST")
          => (/\ ev'.closes = <<PongTimeoutClose(TRUE)>>
              /\ state' = "CLOSING")
       /\ ClosedThenReconnectScheduled
       /\ TimeoutThenDial]_vars

\* C13 (amended): as C13, but the close is sent and the state CLOSING only
\* when the connection is still open; when the peer has begun to close it,
\* the close call fails and the channel goes to NOT_CONNECTED at once, the
\* timer armed for reconnect_timeout.
C13_PongTimeoutReconnects_Amended ==
    [][/\ (/\ ev'.op = "onPongTimeout"
           /\ ev'.current
           /\ state = "WAITING_FOR_REQUEST")
          => IF endpoint[conn].net = "open"
             THEN /\ ev'.closes = <<PongTimeoutClose(TRUE)>>
                  /\ state' = "CLOSING"
                  /\ ~timer'.armed
             ELSE /\ ev'.closes = <<PongTimeoutClose(FALSE)>>
                  /\ state' = "NOT_CONNECTED"
                  /\ ReconnectScheduled
       /\ ClosedThenReconnectScheduled
       /\ TimeoutThenDial]_vars

\* A pong timeout in WAITING_FOR_REQUEST has sent its close.
C13_Witness ==
    /\ ev.op = "onPongTimeout"
    /\ ev.current
    /\ ev.closes = <<PongTimeoutClose(TRUE)>>
    /\ StatesWritten(ev) = <<"CLOSING">>
    /\ state = "CLOSING"

\* The close a reconnect for new settings asks for.
ServiceRestartClose(sent) ==
    [code |-> SERVICE_RESTART,
     reason |-> "reestablishing connection in order to apply configuration updates",
     sent |-> sent]

\* The configure of a step passed validation and changed the effective url.
UrlChanged ==
    /\ ev'.op = "configure"
    /\ ConfigureValid
    /\ get(config', "url") # get(config, "url")

\* C14 (as claimed): a successful configure that changes url in
\* WAITING_FOR_REQUEST sends a SERVICE_RESTART close and goes to CLOSING;
\* the close of the connection leaves NOT_CONNECTED with the reconnect
\* scheduled; the connect attempt that follows dials the url the store holds
\* then.
C14_UrlChangeWhenIdle ==
    [][/\ (UrlChanged /\ state = "WAITING_FOR_REQUEST")
          => (/\ ev'.closes = <<ServiceRestartClose(TRUE)>>
              /\ state' = "CLOSING")
       /\ ClosedThenReconnectScheduled
       /\ TimeoutThenDial]_vars

\* C14 (amended): as C14, but the close is sent and the state CLOSING only
\* when the connection is still open; when the peer has begun to close it,
\* the close call fails and the channel goes to NOT_CONNECTED at once, the
\* reconnect scheduled.  In both cases the store holds the new url.
C14_UrlChangeWhenIdle_Amended ==
    [][/\ (UrlChanged /\ state = "WAITING_FOR_REQUEST")
          => /\ get(config', "url") = member(ev'.input, "url")
             /\ IF endpoint[conn].net = "open"
                THEN /\ ev'.closes = <<ServiceRestartClose(TRUE)>>
                     /\ state' = "CLOSING"
                     /\ ~timer'.armed
                ELSE /\ ev'.closes = <<ServiceRestartClose(FALSE)>>
                     /\ state' = "NOT_CONNECTED"
                     /\ ReconnectScheduled
       /\ ClosedThenReconnectScheduled
       /\ TimeoutThenDial]_vars

\* A url change has closed the idle connection.
C14_Witness ==
    /\ ev.op = "configure"
    /\ ev.closes = <<ServiceRestartClose(TRUE)>>
    /\ StatesWritten(ev) = <<"CLOSING">>
    /\ state = "CLOSING"
    /\ get(config, "url") = Str("ws://b")
    /\ endpoint[conn].url = "ws://a"

\* C15: previewUpdate leaves the store as it is, for every store and every
\* document, with or without errors: the user values, dump() and every
\* get(k) are the same after the call as before it.
C15_PreviewUpdateIsPure ==
    [][(sev'.op = "previewUpdate")
          => (/\ store' = store
              /\ dump(store') = dump(store)
              /\ \A k \in StoreKeys : get(store', k) = get(store, k))]_vars

\* A valid update was previewed, the preview differs from what the store
\* holds, and the store still holds it.
C15_Witness ==
    /\ sev.op = "previewUpdate"
    /\ sev.errors = {}
    /\ "a" \in DOMAIN store
    /\ isMember(sev.input, "a")
    /\ sev.result.m["a"].user_value # store["a"].userValue
    /\ sev.result # dump(store)

\* The user value update(u) leaves key k with when it applies u.
Merged(k, u) == IF isMember(u, k) THEN u.m[k] ELSE store[k].userValue

\* C16 (as claimed): update(u) leaves the store unchanged if and only if
\* it reports an error.
C16_UpdateUnchangedIffErrors ==
    [][(sev'.op = "update")
          => (store' = store <=> sev'.errors # {})]_vars

\* C16 (amended): update(u) is atomic.  With a validation error it returns
\* false and the store stays as it is; with none it returns true and every
\* key holds the merged user value (which may be the one it held).
C16_UpdateIsAtomic ==
    [][(sev'.op = "update")
          => LET p == previewUpdate(store, sev'.input)
             IN  /\ sev'.errors = p.errors
                 /\ sev'.ok = (p.errors = {})
                 /\ DOMAIN store' = DOMAIN store
                 /\ IF p.errors # {}
                    THEN store' = store
                    ELSE \A k \in DOMAIN store :
                            store'[k] =
                               [store[k] EXCEPT
                                   !.userValue = Merged(k, sev'.input)]]_vars

\* An update failed on key "b" alone; its value for key "a", valid by
\* itself, was not stored.
C16_Witness ==
    /\ sev.op = "update"
    /\ ~sev.ok
    /\ {"a", "b"} \subseteq DOMAIN store
    /\ \A e \in sev.errors : e.key = "b"
    /\ isMember(sev.input, "a")
    /\ sev.input.m["a"] # store["a"].userValue

\* C17: the merge rule.  After a successful update(u) every registered key
\* holds u[k] when u has a member k (a null member clears the user value)
\* and its previous user value when u has none; the document previewUpdate(u)
\* returns has the same user_value for every key.
C17_MergeRule ==
    [][/\ (sev'.op = "update" /\ sev'.ok)
          => (/\ DOMAIN store' = DOMAIN store
              /\ \A k \in DOMAIN store :
                    store'[k].userValue = Merged(k, sev'.input))
       /\ (sev'.op = "previewUpdate")
          => (/\ DOMAIN sev'.result.m = DOMAIN store
              /\ \A k \in DOMAIN store :
                    sev'.result.m[k].user_value
                       = Merged(k, sev'.input))]_vars

\* An update with a null member for key "a" and no member for key "b" has
\* cleared a and left b its value.
C17_Witness ==
    /\ sev.op = "update"
    /\ sev.ok
    /\ {"a", "b"} \subseteq DOMAIN store
    /\ isMember(sev.input, "a")
    /\ sev.input.m["a"] = Null
    /\ ~isMember(sev.input, "b")
    /\ store["a"].userValue = Null
    /\ store["b"].userValue = JInt(3)

\* The effective value of key k, as the store's documentation has it.
Effective(s, k) ==
    IF k \notin DOMAIN s THEN Null
    ELSE IF s[k].userValue # Null THEN s[k].userValue
    ELSE IF s[k].defaultValueGetter.has THEN s[k].defaultValueGetter.v
    ELSE Null

\* C18: get(k) is the effective value: the user value if it is not null,
\* else the default value if the key has one, else null, and null for a key
\* that is not registered; after an update with a null member for k, get(k)
\* is the default value, or null.
C18_GetIsEffectiveValue ==
    [][/\ (sev'.op = "get")
          => sev'.result = Effective(store', sev'.input.s)
       /\ \A k \in StoreKeys : get(store', k) = Effective(store', k)
       /\ (sev'.op = "update" /\ sev'.ok)
          => \A k \in DOMAIN store' :
                (isMember(sev'.input, k) /\ sev'.input.m[k] = Null)
                   => get(store', k)
                         = IF store'[k].defaultValueGetter.has
                           THEN store'[k].defaultValueGetter.v
                           ELSE Null]_vars

\* get("a") has returned the default value of a key without a user value.
C18_Witness ==
    /\ sev.op = "get"
    /\ sev.input = Str("a")
    /\ "a" \in DOMAIN store
    /\ store["a"].userValue = Null
    /\ store["a"].defaultValueGetter.has
    /\ sev.result = JInt(7)

\* The members of document u whose keys are not registered.
Unregistered(u) ==
    {k \in StoreKeys : isMember(u, k) /\ k \notin DOMAIN store}

\* C19: a member of the update document whose key is not registered is
\* ignored: no error names it, the preview has no entry for it, and after
\* the call neither the store nor dump() has one and get() of it is null.
C19_UnregisteredKeysIgnored ==
    [][(sev'.op \in {"previewUpdate", "update", "forceApplyUpdatePreview"})
          => \A k \in Unregistered(sev'.input) :
                /\ \A e \in sev'.errors : e.key # k
                /\ sev'.op # "update" => k \notin DOMAIN sev'.result.m
                /\ k \notin DOMAIN store'
                /\ k \notin DOMAIN dump(store').m
                /\ get(store', k) = Null]_vars

\* An update with a member "zz" was applied for key "a".
C19_Witness ==
    /\ sev.op = "update"
    /\ sev.ok
    /\ isMember(sev.input, "zz")
    /\ isMember(sev.input, "a")
    /\ "a" \in DOMAIN store
    /\ store["a"].userValue = sev.input.m["a"]
    /\ "zz" \notin DOMAIN store

\* C20: for a document that is neither an object nor null, previewUpdate
\* appends the one error "The JSON document must be an object", with an
\* empty key, validates nothing else and returns dump(); update returns
\* false and leaves the store as it is.
C20_DocumentMustBeObject ==
    [][(/\ sev'.op \in {"previewUpdate", "update"}
        /\ ~isNull(sev'.input)
        /\ ~isObject(sev'.input))
          => (/\ sev'.errors
                    = {Error("", "The JSON document must be an object")}
              /\ \A e \in sev'.errors :
                    getFullMessage(e) = "The JSON document must be an object"
              /\ sev'.op = "previewUpdate" => sev'.result = dump(store)
              /\ sev'.op = "update" => ~sev'.ok
              /\ store' = store)]_vars

\* A string was previewed on a store whose required key has no value: the
\* one error is that of the document.
C20_Witness ==
    /\ sev.op = "previewUpdate"
    /\ sev.input = Str("hello")
    /\ "b" \in DOMAIN store
    /\ store["b"].userValue = Null
    /\ Cardinality(sev.errors) = 1
    /\ sev.result = dump(store)

\* The document of a call is one that previewUpdate validates.
Validated(u) == isNull(u) \/ isObject(u)

\* The number of times error e is in a vector of errors.
count(vector, e) == Cardinality({i \in DOMAIN vector : vector[i] = e})

\* C21: for a document it validates, previewUpdate reports "'k' is
\* required" once for every key k that is registered as required and has a
\* null effective value in the preview (never set, or set to null by the
\* update), and for no other key; for no optional key in particular.
C21_RequiredKeysValidated ==
    [][(sev'.op = "previewUpdate" /\ Validated(sev'.input))
          => \A k \in StoreKeys :
                /\ count(sev'.vector, Error(k, "is required"))
                      = IF /\ k \in DOMAIN store
                           /\ store[k].options = REQUIRED
                           /\ sev'.result.m[k].effective_value = Null
                        THEN 1 ELSE 0
                /\ (k \in DOMAIN store /\ store[k].options = REQUIRED)
                      => sev'.result.m[k].effective_value
                            = Merged(k, sev'.input)
                /\ getFullMessage(Error(k, "is required"))
                      = "'" \o k \o "' is required"]_vars

\* The required key a, which had a value, is set to null by the document,
\* and the required key b never had one: one error for each.
C21_Witness ==
    /\ sev.op = "previewUpdate"
    /\ sev.input = Obj([a |-> Null])
    /\ {"a", "b"} \subseteq DOMAIN store
    /\ store["a"].options = REQUIRED
    /\ store["a"].userValue # Null
    /\ store["b"].userValue = Null
    /\ Len(sev.vector) = 2
    /\ sev.errors = {Error("a", "is required"), Error("b", "is required")}

\* The JSON types of the values a key of the given type accepts: strings
\* for STRING keys only; integers, reals and booleans for every type.
AcceptedFor(type) ==
    IF type = "STRING_TYPE" THEN {"string", "int", "real", "bool"}
    ELSE {"int", "real", "bool"}

\* The message for a value that a key of the given type does not accept.
MessageFor(type, v) ==
    CASE type = "STRING_TYPE"  -> "must be a string"
      [] type = "INTEGER_TYPE" -> "must be an integer"
      [] type = "UNSIGNED_INTEGER_TYPE" ->
           IF v.t \in {"int", "real"} THEN "must be greater than 0"
           ELSE "must be an integer"
      [] type = "FLOAT_TYPE"   -> "must be a number"
      [] OTHER                 -> "must be a boolean"

\* The key of the given type does not accept value v.
Rejected(type, v) ==
    \/ v.t \notin AcceptedFor(type)
    \/ type = "UNSIGNED_INTEGER_TYPE" /\ v.t \in {"int", "real"} /\ v.n < 0

\* C22: for a document it validates, previewUpdate reports, for every
\* registered key, required or optional, with a non-null effective value in
\* the preview, one error exactly when the value is not convertible to the
\* type of the key, with the message of that type; integers, reals and
\* booleans pass for STRING, INTEGER and BOOLEAN keys, integers for FLOAT
\* keys, and a string fails for INTEGER, UNSIGNED_INTEGER, FLOAT and
\* BOOLEAN keys, a negative integer for UNSIGNED_INTEGER keys.
C22_TypesValidated ==
    [][(sev'.op = "previewUpdate" /\ Validated(sev'.input))
          => \A k \in DOMAIN store :
                LET v == sev'.result.m[k].effective_value
                    typeErrors ==
                        {i \in DOMAIN sev'.vector :
                            /\ sev'.vector[i].key = k
                            /\ sev'.vector[i].message # "is required"}
                IN  /\ v = Null => typeErrors = {}
                    /\ (v # Null /\ ~Rejected(store[k].type, v))
                          => typeErrors = {}
                    /\ (v # Null /\ Rejected(store[k].type, v))
                          => /\ Cardinality(typeErrors) = 1
                             /\ \A i \in typeErrors :
                                   sev'.vector[i].message
                                      = MessageFor(store[k].type, v)]_vars

\* A negative integer was previewed for an optional key of type unsigned
\* integer, whose user value is valid.
C22_Witness ==
    /\ sev.op = "previewUpdate"
    /\ sev.input = Obj([a |-> JInt(-1)])
    /\ "a" \in DOMAIN store
    /\ store["a"].type = "UNSIGNED_INTEGER_TYPE"
    /\ store["a"].options = OPTIONAL
    /\ store["a"].userValue = JInt(3)
    /\ sev.errors = {Error("a", "must be greater than 0")}

\* C23: registerKey fails exactly when REQUIRED comes with a default value
\* getter, and then leaves the store as it is; a key that is registered
\* has the schema given and a null user value, and the other keys stay as
\* they are; so no entry of a store is both required and with a default.
C23_RequiredExcludesDefault ==
    /\ [](\A k \in DOMAIN store :
             ~(isRequired(store[k]) /\ store[k].defaultValueGetter.has))
    /\ [][(sev'.op = "registerKey")
             => LET c == sev'.input
                IN  /\ sev'.ok <=> ~(c.options = REQUIRED /\ c.getter.has)
                    /\ ~sev'.ok => store' = store
                    /\ sev'.ok
                          => /\ DOMAIN store' = DOMAIN store \cup {c.key}
                             /\ store'[c.key].userValue = Null
                             /\ store'[c.key].type = c.type
                             /\ store'[c.key].options = c.options
                             /\ store'[c.key].defaultValueGetter = c.getter
                             /\ \A k \in DOMAIN store \ {c.key} :
                                   store'[k] = store[k]]_vars

\* Registering key a as required with a default value has failed; a is
\* still the optional key it was, with its user value.
C23_Witness ==
    /\ sev.op = "registerKey"
    /\ ~sev.ok
    /\ sev.input.key = "a"
    /\ "a" \in DOMAIN store
    /\ store["a"].options = OPTIONAL
    /\ store["a"].userValue # Null

\* The type tags of dump().
TypeTag(type) ==
    CASE type = "STRING_TYPE"           -> "string"
      [] type = "INTEGER_TYPE"          -> "integer"
      [] type = "UNSIGNED_INTEGER_TYPE" -> "unsigned integer"
      [] type = "FLOAT_TYPE"            -> "float"
      [] OTHER                          -> "boolean"

\* C24: dump() is an object with one entry per registered key, and no
\* other; the entry has user_value, the stored user value; effective_value,
\* what get(k) returns; default_value exactly when the key has a default
\* value getter, with the value it returns; type, the tag of the key's
\* type; and required: true exactly when the key is required.
C24_DumpFormat ==
    [][(sev'.op = "dump")
          => /\ isObject(sev'.result)
             /\ DOMAIN sev'.result.m = DOMAIN store
             /\ \A k \in DOMAIN store :
                   LET sub == sev'.result.m[k]
                       e == store[k]
                   IN  /\ DOMAIN sub \subseteq
                             {"user_value", "default_value",
                              "effective_value", "type", "required"}
                       /\ sub.user_value = e.userValue
                       /\ sub.effective_value = get(store, k)
                       /\ "default_value" \in DOMAIN sub
                             <=> e.defaultValueGetter.has
                       /\ e.defaultValueGetter.has
                             => sub.default_value = e.defaultValueGetter.v
                       /\ sub.type = Str(TypeTag(e.type))
                       /\ "required" \in DOMAIN sub <=> e.options = REQUIRED
                       /\ e.options = REQUIRED
                             => sub.required = Bool(TRUE)]_vars

\* A store was dumped that has an optional key with a default value and a
\* user value, and a required key with a value.
C24_Witness ==
    /\ sev.op = "dump"
    /\ {"a", "b"} \subseteq DOMAIN store
    /\ store["a"].defaultValueGetter.has
    /\ store["a"].userValue = Str("x")
    /\ store["b"].userValue = JInt(3)
    /\ sev.result.m["a"].default_value = JInt(7)
    /\ sev.result.m["a"].effective_value = Str("x")
    /\ sev.result.m["b"].required = Bool(TRUE)

\* C25: forceApplyUpdatePreview, given the preview p that previewUpdate(u)
\* returned, with or without errors, makes p[k].user_value the user value
\* of every registered key, valid or not, and leaves the schema as it is;
\* afterwards dump() is p.
C25_ForceApplyInstallsPreview ==
    [][(sev'.op = "forceApplyUpdatePreview")
          => /\ sev'.result = previewUpdate(store, sev'.input).preview
             /\ DOMAIN store' = DOMAIN store
             /\ \A k \in DOMAIN store :
                   /\ store'[k].userValue = sev'.result.m[k].user_value
                   /\ store'[k].type = store[k].type
                   /\ store'[k].options = store[k].options
                   /\ store'[k].defaultValueGetter
                         = store[k].defaultValueGetter
             /\ dump(store') = sev'.result]_vars

\* A preview with two errors was applied: the integer key a holds a string,
\* the required key b nothing.
C25_Witness ==
    /\ sev.op = "forceApplyUpdatePreview"
    /\ sev.input = Obj([a |-> Str("x")])
    /\ {"a", "b"} \subseteq DOMAIN store
    /\ store["a"].type = "INTEGER_TYPE"
    /\ store["a"].userValue = Str("x")
    /\ store["b"].userValue = Null
    /\ sev.errors = {Error("a", "must be an integer"),
                     Error("b", "is required")}

\* C26 (as claimed): a doneReplying that the message handler owes for a
\* reply it took, and whose handle passes the test for the current
\* connection, finds the state REPLYING: the assertion on the state holds.
C26_DoneReplyingFindsReplying ==
    [][(ev'.op = "doneReplying" /\ ev'.current)
          => (state = "REPLYING" /\ crashed' = "no")]_vars

\* C27 (as claimed): the deadline handler of the timer runs in
\* NOT_CONNECTED, WAITING_FOR_REQUEST or REPLYING only, and never meets the
\* unsupported state of its switch.
C27_TimeoutInSupportedState ==
    [][(ev'.op = "onTimeout")
          => (/\ state \in {"NOT_CONNECTED", "WAITING_FOR_REQUEST",
                            "REPLYING"}
              /\ crashed' = "no")]_vars

\* C28 (as claimed): a configure that passes validation and changes url or
\* proxy_url never meets the unsupported state of internalReconnect,
\* whatever the state it runs in.
C28_ReconnectInAnyState ==
    [][(ev'.op = "configure" /\ ConfigureValid /\ UrlOrProxyChanged)
          => crashed' = "no"]_vars

\* The states of an established connection.
Established == {"WAITING_FOR_REQUEST", "REPLYING"}

\* The handler of a step assigned CLOSING and, later, NOT_CONNECTED.
ClosingThenNotConnected(e) ==
    \E i, j \in DOMAIN e.writes :
       /\ i < j
       /\ e.writes[i].st = "CLOSING"
       /\ e.writes[j].st = "NOT_CONNECTED"

\* C29 (as claimed): whenever the channel leaves WAITING_FOR_REQUEST or
\* REPLYING and is NOT_CONNECTED next, it was CLOSING in between, whoever
\* began the close.
C29_CloseSequence ==
    [][(state \in Established /\ state' = "NOT_CONNECTED")
          => ClosingThenNotConnected(ev')]_vars

\* C29, amended: a close that the channel begins passes through CLOSING:
\* the handler that asks the connection for a close assigns CLOSING first,
\* and the channel stays CLOSING when the close was sent and assigns
\* NOT_CONNECTED next when the call failed; CLOSING is left for
\* NOT_CONNECTED only.  When the peer closes an established connection, or
\* the connection is lost, onConnectionClosed takes the channel from
\* WAITING_FOR_REQUEST or REPLYING to NOT_CONNECTED with no CLOSING in
\* between.
C29_CloseSequence_Amended ==
    [][/\ (ev'.closes # << >>)
          => LET n == Len(ev'.writes)
             IN  IF ev'.closes[Len(ev'.closes)].sent
                 THEN /\ n >= 1
                      /\ ev'.writes[n].st = "CLOSING"
                      /\ state' = "CLOSING"
                 ELSE /\ n >= 2
                      /\ ev'.writes[n - 1].st = "CLOSING"
                      /\ ev'.writes[n].st = "NOT_CONNECTED"
                      /\ state' = "NOT_CONNECTED"
       /\ (state = "CLOSING" /\ state' # "CLOSING")
          => state' = "NOT_CONNECTED"
       /\ (state \in Established /\ state' = "NOT_CONNECTED")
          => IF ev'.op = "onConnectionClosed"
             THEN /\ ev'.closes = << >>
                  /\ StatesWritten(ev') = <<"NOT_CONNECTED">>
             ELSE /\ ev'.closes # << >>
                  /\ ClosingThenNotConnected(ev')]_vars

\* The peer has closed the connection that was waiting for a request: the
\* channel is NOT_CONNECTED and was never CLOSING.
C29_Witness ==
    /\ ev.op = "onConnectionClosed"
    /\ ev.current
    /\ state = "NOT_CONNECTED"
    /\ StatesWritten(ev) = <<"NOT_CONNECTED">>
    /\ endpoint[conn].done
    /\ ~shuttingDown

\* C30: between handlers, a channel that is NOT_CONNECTED and not shutting
\* down has its timer armed (or the timer's completion is queued); every
\* handler that leaves it NOT_CONNECTED, not shutting down, has armed the
\* timer for reconnect_timeout.
C30_ReconnectScheduled ==
    /\ []((state = "NOT_CONNECTED" /\ ~shuttingDown /\ crashed = "no")
             => (timer.armed \/ timer.ready > 0))
    /\ [][(/\ ev'.writes # << >>
           /\ state' = "NOT_CONNECTED"
           /\ ~shuttingDown'
           /\ crashed' = "no")
             => (/\ timer'.armed
                 /\ timer'.ms
                       = asMillis(get(config', "reconnect_timeout")))]_vars

\* A dial has failed: the channel is NOT_CONNECTED with the timer armed for
\* reconnect_timeout.
C30_Witness ==
    /\ ev.op = "onConnectFailed"
    /\ ev.current
    /\ state = "NOT_CONNECTED"
    /\ ~shuttingDown
    /\ timer.armed
    /\ timer.ms = 5000

\* The handler of a step began a dial.
DialStarted(e) == \E i \in DOMAIN e.writes : e.writes[i].st = "CONNECTING"

\* C31 (as claimed): at most one connection is being dialled and at most
\* one is being closed; a dial is not begun while the previous connection
\* is connecting, open or closing; and closeConnection is not invoked in
\* state CLOSING.
C31_OneDialOneClose ==
    /\ [](/\ Cardinality({c \in ConnIds :
                             endpoint[c].net = "connecting"}) <= 1
          /\ Cardinality({c \in ConnIds :
                             endpoint[c].net \in {"closing",
                                                  "peer_closing"}}) <= 1)
    /\ [][/\ DialStarted(ev')
             => (conn = NoConn \/ endpoint[conn].net \notin Live)
          /\ (ev'.closes # << >>) => state # "CLOSING"]_vars

\* The handler of a step took the channel into WAITING_FOR_REQUEST.
EntersWaiting ==
    /\ state' = "WAITING_FOR_REQUEST"
    /\ \E i \in DOMAIN ev'.writes :
          ev'.writes[i].st = "WAITING_FOR_REQUEST"

\* C32 (as claimed): a handler that takes the channel into
\* WAITING_FOR_REQUEST, onConnected or doneReplying, leaves the timer armed
\* for ping_interval.
C32_WaitingArmsTimer ==
    [][EntersWaiting
          => (/\ timer'.armed
              /\ timer'.ms = asMillis(get(config', "ping_interval")))]_vars

\* C37 (as claimed): in WAITING_FOR_REQUEST the ping timer is pending (or
\* its completion queued), or a ping is out whose pong or pong timeout is
\* still to come.
C37_HeartbeatNeverStalls ==
    (state = "WAITING_FOR_REQUEST" /\ crashed = "no")
       => \/ timer.armed
          \/ timer.ready > 0
          \/ endpoint[conn].pingOut

\* The handler of a step armed the timer, or gave it another deadline.
TimerArmed ==
    timer'.armed /\ (~timer.armed \/ timer'.ms # timer.ms)

\* What C33 says of a deadline in WAITING_FOR_REQUEST or REPLYING whose ping
\* is sent, and of the scheduling of the next ping: one ping, no close, the
\* state and the timer as they were; with an established connection before
\* and after, only a pong on the current connection arms the timer.
PingSentAndPongArms ==
    /\ (ev'.op = "onTimeout" /\ state \in Established /\ ev'.pings > 0)
          => /\ ev'.pings = 1
             /\ ev'.closes = << >>
             /\ state' = state
             /\ timer'.armed = timer.armed
             /\ timer'.ms = timer.ms
    /\ (state \in Established /\ state' \in Established /\ TimerArmed)
          => /\ ev'.op = "onPong"
             /\ ev'.current
             /\ timer'.ms = asMillis(get(config', "ping_interval"))

\* The deadline handler of a step ran with an established connection and
\* could not send its ping.
PingFailed ==
    ev'.op = "onTimeout" /\ state \in Established /\ ev'.pings = 0

\* C33 (as claimed): a deadline in WAITING_FOR_REQUEST or REPLYING sends one
\* ping and leaves the timer alone; the timer is armed again by a pong on
\* the current connection only; when the ping cannot be sent a close with
\* code NORMAL is asked for and the channel is CLOSING.
C33_PingOnDeadline ==
    [][/\ PingSentAndPongArms
       /\ PingFailed
             => /\ Len(ev'.closes) = 1
                /\ ev'.closes[1].code = NORMAL
                /\ state' = "CLOSING"]_vars

\* C33, amended: as claimed, but when the ping cannot be sent the handler
\* assigns CLOSING and asks for a close with code NORMAL, and the channel
\* is CLOSING if that close is sent, and NOT_CONNECTED with the timer armed
\* for reconnect_timeout if the close request fails as well.
C33_PingOnDeadline_Amended ==
    [][/\ PingSentAndPongArms
       /\ PingFailed
             => /\ Len(ev'.closes) = 1
                /\ ev'.closes[1].code = NORMAL
                /\ ev'.closes[1].reason = "error sending ping"
                /\ ev'.writes # << >>
                /\ ev'.writes[1].st = "CLOSING"
                /\ IF ev'.closes[1].sent
                   THEN state' = "CLOSING"
                   ELSE /\ state' = "NOT_CONNECTED"
                        /\ timer'.armed
                        /\ timer'.ms
                              = asMillis(get(config',
                                             "reconnect_timeout"))]_vars

\* The ping of a deadline could not be sent, nor the close that followed:
\* the channel is NOT_CONNECTED.
C33_Witness ==
    /\ ev.op = "onTimeout"
    /\ ev.pings = 0
    /\ Len(ev.closes) = 1
    /\ ev.closes[1].reason = "error sending ping"
    /\ ~ev.closes[1].sent
    /\ state = "NOT_CONNECTED"
    /\ timer.armed

\* C34 (as claimed): initialize() creates the timer, begins the first dial
\* and leaves the channel CONNECTING, with a connection in conn.
C34_InitializeConnects ==
    [][(ev'.op = "initialize")
          => /\ state = "UNINITIALIZED"
             /\ timer'.created
             /\ state' = "CONNECTING"
             /\ conn' \in ConnIds
             /\ endpoint'[conn'].net = "connecting"]_vars

\* C34, amended: initialize() creates the timer and begins the first dial;
\* it leaves the channel CONNECTING with a connection in conn when the
\* endpoint accepts the url and the proxy settings, and NOT_CONNECTED with
\* the timer armed for reconnect_timeout when it does not.
C34_InitializeConnects_Amended ==
    [][(ev'.op = "initialize")
          => /\ state = "UNINITIALIZED"
             /\ timer'.created
             /\ DialStarted(ev')
             /\ IF /\ ValidUri(asString(get(config, "url")))
                   /\ \/ isNull(get(config, "proxy_url"))
                      \/ ValidProxyUri(asString(get(config, "proxy_url")))
                THEN /\ state' = "CONNECTING"
                     /\ conn' \in ConnIds
                     /\ endpoint'[conn'].net = "connecting"
                     /\ endpoint'[conn'].url = asString(get(config, "url"))
                     /\ ~timer'.armed
                ELSE /\ state' = "NOT_CONNECTED"
                     /\ StatesWritten(ev')
                           = <<"NOT_CONNECTED", "CONNECTING",
                               "NOT_CONNECTED">>
                     /\ timer'.armed
                     /\ timer'.ms
                           = asMillis(get(config,
                                          "reconnect_timeout"))]_vars

\* initialize() was called on a channel whose url the endpoint rejects.
C34_Witness ==
    /\ ev.op = "initialize"
    /\ state = "NOT_CONNECTED"
    /\ conn = NoConn
    /\ timer.created
    /\ timer.armed
    /\ timer.ms = 5000

\* C35 (as claimed): every assignment to state, in every operation, is made
\* while the state mutex is held.
C35_StateWrittenUnderLock ==
    [][\A i \in DOMAIN ev'.writes : ev'.writes[i].locked]_vars

\* The document internalInspectState writes for the channel as it is.
InspectedState ==
    internalInspectState(Begin("inspectState", NoConn, Null)).ev.doc

\* C36: between handlers reconnectAfterReply is set only in state REPLYING,
\* and the inspectState document has the member reconnect_planned only
\* together with state "REPLYING"; the flag is set only by a reconnect
\* request handled in REPLYING, and no step that leaves REPLYING keeps it.
C36_ReconnectPlannedOnlyReplying ==
    /\ [](/\ reconnectAfterReply => state = "REPLYING"
          /\ isMember(InspectedState, "reconnect_planned")
                => member(InspectedState, "state") = Str("REPLYING"))
    /\ [][/\ (~reconnectAfterReply /\ reconnectAfterReply')
             => /\ state = "REPLYING"
                /\ state' = "REPLYING"
                /\ ev'.op = "configure"
          /\ (state = "REPLYING" /\ state' # "REPLYING")
             => ~reconnectAfterReply']_vars

\* A reconnect is planned while a request is being handled, and the
\* inspectState document says so.
C36_Witness ==
    /\ state = "REPLYING"
    /\ reconnectAfterReply
    /\ isMember(InspectedState, "reconnect_planned")
    /\ ev.op = "configure"

\* C38 (as claimed): onConnected takes the channel to WAITING_FOR_REQUEST
\* from CONNECTING only; an open notification that arrives after
\* closeConnection has left CONNECTING neither enters WAITING_FOR_REQUEST
\* nor arms the timer for ping_interval.
C38_ConnectedOnlyFromConnecting ==
    [][(ev'.op = "onConnected" /\ ev'.current /\ state # "CONNECTING")
          => /\ state' = state
             /\ ev'.writes = << >>
             /\ timer' = timer]_vars

\* C39 (as claimed): a request is served (the message handler is invoked
\* from WAITING_FOR_REQUEST) only on a connection dialled with the url in
\* effect, so never on one dialled with a url that a configure has since
\* replaced.
C39_UrlChangeTakesEffect ==
    [][(ev'.op = "onMessage" /\ ev'.handled > 0)
          => /\ state = "WAITING_FOR_REQUEST"
             /\ endpoint[ev'.hdl].url = asString(get(config, "url"))]_vars

=============================================================================
